---- MODULE Spec2Model ----
(***************************************************************************)
(* Verification model of the portfolio demos:                              *)
(*   - src/src/main.ts    rail ride with a scripted cutscene               *)
(*   - src/src/myself.ts  ScrollController, worlds, transitions, App       *)
(*   - src/src/other.ts   projects path demo (wheel/touch, focus)          *)
(*   - src/unnamed/part_001  path demo (wheel/touch)                       *)
(*                                                                         *)
(* Numbers.  JavaScript numbers are modelled in fixed point: a progress    *)
(* value v is the integer v*ONE, a smoothing factor or an ease ratio r is  *)
(* the integer r*EONE, a frame time is an integer number of milliseconds.  *)
(* An arithmetic expression is evaluated exactly and its result rounded    *)
(* once to the nearest unit; the relative rounding error of IEEE doubles   *)
(* (about 1e-16) is below the resolution of the model and not represented. *)
(***************************************************************************)
EXTENDS Integers, Sequences, FiniteSets, TLC

VARIABLES
    \* ---- main.ts (rail ride) ----
    rideT,            \* ride.t        : actual camera progress
    scrollT,          \* ride.scrollT  : scroll-driven progress
    inCutscene,       \* let inCutscene
    cutscenePlayed,   \* let cutscenePlayed
    cutTween,         \* the gsap tween created by tryStartCutscene
    cutsceneStarts,   \* number of gsap.to calls made by tryStartCutscene
    \* ---- myself.ts (ScrollController / App) ----
    enabled,          \* ScrollController.enabled
    progress,         \* ScrollController.progress
    target,           \* ScrollController.target
    hasPlayedEntryCinematic, \* EducationWorld.hasPlayedEntryCinematic
    cinematic,        \* the gsap tween created by EducationWorld.onEnter
    activeWorld,      \* WorldManager.activeWorld
    transition,       \* TransitionManager {active, mix, fromWorld, toWorld} and its tween
    \* ---- other.ts / part_001 (path demos) ----
    targetT,          \* other.ts targetT
    currentT,         \* other.ts currentT
    focus,            \* other.ts focus (non-null or null)
    pathTargetT,      \* part_001 targetT
    pathCurrentT,     \* part_001 currentT
    touchY,           \* other.ts / part_001 touchY
    \* ---- main.ts (look blend) ----
    lookEdges,        \* the edges a, b, c, d passed to pulse
    lookX,            \* the x passed to pulse (tMove in animate)
    lookW,            \* const w = pulse(a, b, c, d, x)
    \* ---- main.ts / part_002 (position on the closed track) ----
    tMove,            \* main.ts animate: const tMove
    lastSleeperStep,  \* main.ts lastSleeperStep
    sleeperT,         \* main.ts updateSleepers: t of each pooled sleeper
    autoT,            \* part_002 tMove
    \* ---- main.ts / part_002 (frames along the track) ----
    tangent,          \* const tangent = new THREE.Vector3()
    tmpRight,         \* const tmpRight = new THREE.Vector3()
    tmpUp,            \* const tmpUp = new THREE.Vector3()
    \* ---- main.ts / part_002 (rails) ----
    leftPts,          \* const leftPts = []
    rightPts,         \* const rightPts = []
    railPair,         \* leftCurve and rightCurve sampled at the same u
    \* ---- other.ts (project stations) ----
    stations,         \* const stations: StationRuntime[]
    create,           \* createStations(): where the async function stands
    promise,          \* the promise of loadImageTexture it awaits
    \* ---- other.ts (focus and image cycling) ----
    time,             \* clock.elapsedTime, in milliseconds
    focusInfo,        \* the fields of focus: stationId, returnT
    \* ---- myself.ts / part_000 (particle demo) ----
    displacement,     \* const displacement: glowImage, cursors, context state
    tickLoop,         \* whether requestAnimationFrame(tick) is pending
    \* ---- the page and what ran last ----
    page,             \* which demo script the document runs
    frames,           \* number of frames simulated (convergence run only)
    last              \* the handler that ran last and its input

rideVars   == <<rideT, scrollT, inCutscene, cutscenePlayed, cutTween, cutsceneStarts>>
scrollVars == <<enabled, progress, target>>
appVars    == <<hasPlayedEntryCinematic, cinematic, activeWorld, transition>>
projVars   == <<targetT, currentT, focus>>
pathVars   == <<pathTargetT, pathCurrentT>>
lookVars   == <<lookEdges, lookX, lookW>>
trackVars  == <<tMove, lastSleeperStep, sleeperT, autoT>>
frameVars  == <<tangent, tmpRight, tmpUp>>
railVars   == <<leftPts, rightPts, railPair>>
stationVars == <<stations, create, promise>>
particleVars == <<displacement, tickLoop>>
galleryVars == <<time, focusInfo>>
extraVars  == <<lookVars, trackVars, frameVars, railVars, stationVars, particleVars,
                galleryVars>>
vars == <<rideVars, scrollVars, appVars, projVars, pathVars, extraVars,
          touchY, page, frames, last>>

(***************************************************************************)
(* Fixed point and the library arithmetic                                  *)
(***************************************************************************)
ONE  == 100       \* the number 1.0 of a progress value
EONE == 10000     \* the number 1.0 of a ratio (smoothing factor, ease)

Max(a, b) == IF a >= b THEN a ELSE b
Min(a, b) == IF a <= b THEN a ELSE b
Abs(a)    == IF a >= 0 THEN a ELSE -a

\* n / d rounded to the nearest integer (n >= 0, d > 0)
RoundDiv(n, d) == (n \div d) + (IF 2 * (n % d) >= d THEN 1 ELSE 0)

\* Math.sign
Sign(x) == IF x > 0 THEN 1 ELSE IF x < 0 THEN -1 ELSE 0

clamp01_noUpper(v) == Max(0, v)
clamp01(v) == Max(0, Min(ONE, v))

(***************************************************************************)
(* Math.exp, Math.pow, THREE.MathUtils.lerp, gsap eases                    *)
(***************************************************************************)
\* Math.exp(-x) for 0 <= x <= 1/2 (x and the result in EONE units), by its series
RECURSIVE ExpSeries(_, _, _)
ExpSeries(x, n, term) ==
    IF term = 0 THEN 0
    ELSE term - ExpSeries(x, n + 1, RoundDiv(term * x, (n + 1) * EONE))

\* Math.exp(-x) for any x >= 0: exp(-x) = exp(-x/2) * exp(-x/2)
RECURSIVE ExpNeg(_)
ExpNeg(x) ==
    IF 2 * x <= EONE THEN ExpSeries(x, 0, EONE)
    ELSE RoundDiv(ExpNeg(x \div 2) * ExpNeg(x - (x \div 2)), EONE)

\* THREE.MathUtils.lerp(x, y, t) = (1 - t) * x + t * y
lerp_extrapolate(x, y, t) == RoundDiv((EONE - t) * x + t * y, EONE) + (y - x)
lerp(x, y, t) == RoundDiv((EONE - t) * x + t * y, EONE)

\* damp(current, target, lambda, dt) of myself.ts; dt in milliseconds
damp_floor(current, tgt, lambda, dt) ==
    lerp(current, tgt, Max(EONE \div 10, EONE - ExpNeg((lambda * dt * EONE) \div 1000)))
damp_wholeSeconds(current, tgt, lambda, dt) ==
    lerp(current, tgt, EONE - ExpNeg(lambda * (dt \div 1000) * EONE))
damp(current, tgt, lambda, dt) ==
    lerp(current, tgt, EONE - ExpNeg((lambda * dt * EONE) \div 1000))

\* 1 - Math.pow(0.0001, dt) of the path demos: 0.0001^dt = exp(-9.2103 * dt)
PathLerpFactor(dt) == EONE - ExpNeg(RoundDiv(92103 * dt, 1000))

\* gsap "power2.inOut" at k of n samples (cubic in and out), in EONE units
Power2InOut(k, n) ==
    IF 2 * k <= n
    THEN RoundDiv(4 * k * k * k * EONE, n * n * n)
    ELSE EONE - RoundDiv(4 * (n - k) * (n - k) * (n - k) * EONE, n * n * n)

\* value of a gsap tween from a to b (a <= b) at sample k of n
TweenValue(a, b, k, n) == a + RoundDiv((b - a) * Power2InOut(k, n), EONE)

(***************************************************************************)
(* main.ts: rail ride, scroll versus cutscene                              *)
(***************************************************************************)
CUT_START == (45 * ONE) \div 100
CUT_END   == (62 * ONE) \div 100

ScrollGrid  == 10     \* scroll positions the user can stop at: i/ScrollGrid
TweenSteps  == 4      \* ticker samples of the cutscene tween
MaxStarts   == 3      \* cap on the counter of started cutscene tweens

\* values self.progress can take in onUpdate (ScrollTrigger clips to [0,1])
ScrollProgressValues ==
    {(i * ONE) \div ScrollGrid : i \in 0..ScrollGrid} \cup {CUT_START, CUT_END}

NoTween == [active |-> FALSE, k |-> 0, from |-> 0]

\* onUpdate: "if (!inCutscene) ride.t = ride.scrollT"
onUpdateRideT_always(p) == p
onUpdateRideT(p) == IF ~inCutscene THEN p ELSE rideT

\* ScrollTrigger onUpdate callback, self.progress = p
OnUpdate(p) ==
    /\ scrollT' = p
    /\ rideT' = onUpdateRideT(p)
    /\ UNCHANGED <<inCutscene, cutscenePlayed, cutTween, cutsceneStarts>>

\* setScrollToProgress(p): window.scrollTo(0, p * maxScroll); ScrollTrigger.update()
\* the progress ScrollTrigger reports to onUpdate after the call
setScrollToProgress_noSync(p) == scrollT
setScrollToProgress(p) == p

\* the guard of tryStartCutscene
tryStartCutscene_noFlag == scrollT >= CUT_START
tryStartCutscene == ~cutscenePlayed /\ scrollT >= CUT_START

\* animate(): tryStartCutscene(), then pose the camera and render
Animate ==
    /\ IF tryStartCutscene /\ cutsceneStarts < MaxStarts
       THEN /\ cutscenePlayed' = TRUE
            /\ inCutscene' = TRUE
            /\ rideT' = CUT_START
            /\ cutTween' = [active |-> TRUE, k |-> 0, from |-> CUT_START]
            /\ cutsceneStarts' = cutsceneStarts + 1
       ELSE UNCHANGED <<cutscenePlayed, inCutscene, rideT, cutTween, cutsceneStarts>>
    /\ UNCHANGED scrollT

\* gsap ticker: one sample of the tween ride.t -> CUT_END
TweenTick ==
    /\ cutTween.active
    /\ cutTween.k + 1 < TweenSteps
    /\ cutTween' = [cutTween EXCEPT !.k = @ + 1]
    /\ rideT' = TweenValue(cutTween.from, CUT_END, cutTween.k + 1, TweenSteps)
    /\ UNCHANGED <<scrollT, inCutscene, cutscenePlayed, cutsceneStarts>>

\* gsap ticker: last sample, then onComplete
TweenComplete ==
    /\ cutTween.active
    /\ cutTween.k + 1 >= TweenSteps
    /\ cutTween' = NoTween
    /\ inCutscene' = FALSE
    \* ride.t = CUT_END (tween end), then onUpdate(self.progress) with inCutscene false
    /\ scrollT' = setScrollToProgress(CUT_END)
    /\ rideT' = setScrollToProgress(CUT_END)
    /\ UNCHANGED <<cutscenePlayed, cutsceneStarts>>

RideInit ==
    /\ rideT = 0
    /\ scrollT = 0
    /\ inCutscene = FALSE
    /\ cutscenePlayed = FALSE
    /\ cutTween = NoTween
    /\ cutsceneStarts = 0

(***************************************************************************)
(* myself.ts: ScrollController                                             *)
(***************************************************************************)
smoothing == 10                 \* ScrollController.smoothing

\* e.deltaY * this.wheelStrength, wheelStrength = 0.0009
WheelDelta(deltaY) == Sign(deltaY) * RoundDiv(Abs(deltaY) * 9 * ONE, 10000)

\* wheel deltas of the input device (pixels)
WheelDeltas == {-1200, -500, 500, 1200}

\* frame times dt = Math.min(0.05, clock.getDelta()), in milliseconds
FrameTimes == {0, 16, 50}

\* arguments a caller passes to setInstant / setTarget
InstantValues == {-(ONE \div 2), ONE \div 2, (3 * ONE) \div 2}

\* wheel listener: "if (!this.enabled) return; this.target = clamp01(...)"
wheelTarget_ignoreEnabled(deltaY) == clamp01(target + WheelDelta(deltaY))
wheelTarget(deltaY) ==
    IF ~enabled THEN target ELSE clamp01(target + WheelDelta(deltaY))

\* setInstant(v): const c = clamp01(v); this.target = c; this.progress = c
setInstant_targetOnly(v) == [target |-> clamp01(v), progress |-> progress]
setInstant(v) == [target |-> clamp01(v), progress |-> clamp01(v)]

\* setTarget(v): this.target = clamp01(v)
setTarget_keepTarget(v) == target
setTarget(v) == clamp01(v)

\* update(dt): this.progress = damp(this.progress, this.target, this.smoothing, dt)
update(dt) == damp(progress, target, smoothing, dt)

Wheel(deltaY) ==
    /\ target' = wheelTarget(deltaY)
    /\ UNCHANGED <<enabled, progress>>

SetInstant(v) ==
    /\ target' = setInstant(v).target
    /\ progress' = setInstant(v).progress
    /\ UNCHANGED enabled

SetTarget(v) ==
    /\ target' = setTarget(v)
    /\ UNCHANGED <<enabled, progress>>

Update(dt) ==
    /\ progress' = update(dt)
    /\ UNCHANGED <<enabled, target>>

\* a world writes ctx.scroll.enabled
SetEnabled(b) ==
    /\ enabled' = b
    /\ UNCHANGED <<progress, target>>

ScrollInit ==
    /\ enabled = TRUE
    /\ progress = 0
    /\ target = 0

(***************************************************************************)
(* myself.ts: worlds, transition, debug keys, App.tick                     *)
(***************************************************************************)
CineSteps  == 3       \* ticker samples of the Education entry cinematic
TransSteps == 2       \* ticker samples of a world transition blend

CINE_END == (18 * ONE) \div 100                 \* gsap.to({p: 0}, {p: 0.18})
MIX_DONE == (999 * EONE) \div 1000              \* "this.mix >= 0.999"

NoWorld == "none"
WorldIds == {"education", "work"}
NoTransition ==
    [active |-> FALSE, mix |-> 0, fromWorld |-> NoWorld, toWorld |-> NoWorld, k |-> 0]

\* EducationWorld.onEnter: scroll state, flag and tween after the call
educationOnEnter_everyTime ==
    [played |-> TRUE, enabled |-> FALSE,
     target |-> setInstant(0).target, progress |-> setInstant(0).progress,
     cinematic |-> [active |-> TRUE, k |-> 0, from |-> 0]]
educationOnEnter ==
    IF ~hasPlayedEntryCinematic
    THEN [played |-> TRUE, enabled |-> FALSE,
          target |-> setInstant(0).target, progress |-> setInstant(0).progress,
          cinematic |-> [active |-> TRUE, k |-> 0, from |-> 0]]
    ELSE [played |-> hasPlayedEntryCinematic, enabled |-> enabled,
          target |-> target, progress |-> progress, cinematic |-> cinematic]

\* WorkWorldStub.onEnter: ctx.scroll.enabled = true; setTarget(progress)
workOnEnter ==
    [played |-> hasPlayedEntryCinematic, enabled |-> TRUE,
     target |-> setTarget(progress), progress |-> progress, cinematic |-> cinematic]

onEnter(id) == IF id = "education" THEN educationOnEnter ELSE workOnEnter

\* TransitionManager.start(fromWorld, toWorld): "if (this.active) return"
transitionStart_swapped(fromW, toW) ==
    IF transition.active THEN transition
    ELSE [active |-> TRUE, mix |-> 0, fromWorld |-> toW, toWorld |-> fromW, k |-> 0]
transitionStart(fromW, toW) ==
    IF transition.active THEN transition
    ELSE [active |-> TRUE, mix |-> 0, fromWorld |-> fromW, toWorld |-> toW, k |-> 0]

\* TransitionManager.consumeCompletedTarget(): the world returned (or NoWorld)
consumeCompletedTarget ==
    IF transition.active THEN NoWorld
    ELSE IF transition.fromWorld = NoWorld \/ transition.toWorld = NoWorld THEN NoWorld
    ELSE IF transition.mix >= MIX_DONE THEN transition.toWorld
    ELSE NoWorld

\* WorldManager.requestWorld(id), from the keys "1" and "2"
RequestWorld(id) ==
    /\ IF id = activeWorld
       THEN UNCHANGED <<scrollVars, appVars>>
       ELSE /\ hasPlayedEntryCinematic' = onEnter(id).played
            /\ enabled' = onEnter(id).enabled
            /\ target' = onEnter(id).target
            /\ progress' = onEnter(id).progress
            /\ cinematic' = onEnter(id).cinematic
            /\ transition' = transitionStart(activeWorld, id)
            /\ UNCHANGED activeWorld

\* key "r": ctx.scroll.setInstant(0)
KeyReset ==
    /\ target' = setInstant(0).target
    /\ progress' = setInstant(0).progress
    /\ UNCHANGED <<enabled, appVars>>

\* window "wheel" event while the App runs
AppWheel(deltaY) ==
    /\ Wheel(deltaY)
    /\ UNCHANGED appVars

\* App.tick: scroll.update(dt); worlds.update(dt); worlds.render()
Tick(dt) ==
    /\ progress' = update(dt)
    /\ IF consumeCompletedTarget # NoWorld
       THEN /\ activeWorld' = consumeCompletedTarget
            /\ transition' = NoTransition
       ELSE UNCHANGED <<activeWorld, transition>>
    /\ UNCHANGED <<enabled, target, hasPlayedEntryCinematic, cinematic>>

\* gsap ticker, entry cinematic: onUpdate -> ctx.scroll.setInstant(p)
CinematicTick ==
    /\ cinematic.active
    /\ cinematic.k + 1 < CineSteps
    /\ LET p == TweenValue(0, CINE_END, cinematic.k + 1, CineSteps) IN
         /\ target' = setInstant(p).target
         /\ progress' = setInstant(p).progress
    /\ cinematic' = [cinematic EXCEPT !.k = @ + 1]
    /\ UNCHANGED <<enabled, hasPlayedEntryCinematic, activeWorld, transition>>

\* gsap ticker, entry cinematic: last onUpdate, then onComplete
CinematicComplete ==
    /\ cinematic.active
    /\ cinematic.k + 1 >= CineSteps
    /\ cinematic' = NoTween
    /\ progress' = setInstant(CINE_END).progress
    /\ enabled' = TRUE
    /\ target' = setTarget(setInstant(CINE_END).progress)
    /\ UNCHANGED <<hasPlayedEntryCinematic, activeWorld, transition>>

\* gsap ticker, transition blend: one sample of mix -> 1
TransitionTick ==
    /\ transition.active
    /\ transition.k + 1 < TransSteps
    /\ transition' = [transition EXCEPT !.k = @ + 1,
                                        !.mix = Power2InOut(transition.k + 1, TransSteps)]
    /\ UNCHANGED <<scrollVars, hasPlayedEntryCinematic, cinematic, activeWorld>>

\* gsap ticker, transition blend: mix = 1, then onComplete: this.active = false
TransitionComplete ==
    /\ transition.active
    /\ transition.k + 1 >= TransSteps
    /\ transition' = [transition EXCEPT !.k = 0, !.mix = EONE, !.active = FALSE]
    /\ UNCHANGED <<scrollVars, hasPlayedEntryCinematic, cinematic, activeWorld>>

\* new App(): WorldManager's constructor calls education.onEnter(ctx)
AppInit ==
    /\ enabled = FALSE
    /\ progress = 0
    /\ target = 0
    /\ hasPlayedEntryCinematic = TRUE
    /\ cinematic = [active |-> TRUE, k |-> 0, from |-> 0]
    /\ activeWorld = "education"
    /\ transition = NoTransition

(***************************************************************************)
(* other.ts (projects demo) and part_001 (path demo): scroll travel        *)
(***************************************************************************)
\* "Math.sign(e.deltaY) * 0.02"
PathStep(d) == Sign(d) * ((2 * ONE) \div 100)

\* touch positions (clientY) and touch/wheel deltas of the input device
TouchYs == {0, 40}
PathWheelDeltas == {-100, 100}

\* frame times clock.getDelta() of the path demos (not clamped), in milliseconds
PathFrameTimes == {0, 16, 50, 1000}

\* frame times of other.ts while its stations cycle images, in milliseconds
\* (dt * 60 is then a whole number)
SwapFrameTimes == {0, 500}

\* 1 - Math.pow(0.0001, dt) for each of these frame times
PathLerpFactors == [dt \in PathFrameTimes \cup SwapFrameTimes |-> PathLerpFactor(dt)]

\* other.ts wheel / touchmove: "if (focus) return; targetT = clamp01(targetT + ...)"
projTarget(d) == IF focus THEN targetT ELSE clamp01(targetT + PathStep(d))

ProjWheel(deltaY) ==
    /\ targetT' = projTarget(deltaY)
    /\ UNCHANGED <<currentT, focus, touchY>>

ProjTouchStart(y) ==
    /\ touchY' = y
    /\ UNCHANGED projVars

ProjTouchMove(y) ==
    /\ targetT' = projTarget(y - touchY)
    /\ touchY' = IF focus THEN touchY ELSE y
    /\ UNCHANGED <<currentT, focus>>

\* pointerdown on a station: enterFocus; on empty space or Escape: exitFocus
ProjSetFocus(f) ==
    /\ focus' = f
    /\ UNCHANGED <<targetT, currentT, touchY>>

\* other.ts animate: camera travel along the path if not focused
projCurrent_ignoreFocus(dt) == lerp(currentT, targetT, PathLerpFactors[dt])
projCurrent(dt) ==
    IF ~focus THEN lerp(currentT, targetT, PathLerpFactors[dt]) ELSE currentT

ProjAnimate(dt) ==
    /\ currentT' = projCurrent(dt)
    /\ UNCHANGED <<targetT, focus, touchY>>

\* part_001 wheel / touchmove: targetT = clamp01(targetT + sign * 0.02)
pathTarget(d) == clamp01(pathTargetT + PathStep(d))

PathWheel(deltaY) ==
    /\ pathTargetT' = pathTarget(deltaY)
    /\ UNCHANGED <<pathCurrentT, touchY>>

PathTouchStart(y) ==
    /\ touchY' = y
    /\ UNCHANGED pathVars

PathTouchMove(y) ==
    /\ pathTargetT' = pathTarget(y - touchY)
    /\ touchY' = y
    /\ UNCHANGED pathCurrentT

\* part_001 animate: smooth camera progression
pathCurrent(dt) == lerp(pathCurrentT, pathTargetT, PathLerpFactors[dt])

PathAnimate(dt) ==
    /\ pathCurrentT' = pathCurrent(dt)
    /\ UNCHANGED <<pathTargetT, touchY>>

ProjInit == targetT = 0 /\ currentT = 0 /\ focus = FALSE
PathInit == pathTargetT = 0 /\ pathCurrentT = 0

(***************************************************************************)
(* main.ts: look helpers (smoothstep, pulse)                               *)
(***************************************************************************)
\* x, the edges and the result of smoothstep/pulse are kept in thousandths
WONE == 1000

\* n / d rounded to the nearest, for either sign of n (d > 0)
Div(n, d) == Sign(n) * RoundDiv(Abs(n), d)

\* THREE.MathUtils.clamp(value, min, max) = Math.max(min, Math.min(max, value))
clamp(value, lo, hi) == Max(lo, Min(hi, value))

\* smoothstep(edge0, edge1, x): t = clamp((x - edge0) / (edge1 - edge0), 0, 1);
\* return t * t * (3 - 2 * t)
smoothstep(edge0, edge1, x) ==
    LET t == clamp(Div((x - edge0) * WONE, edge1 - edge0), 0, WONE)
    IN  RoundDiv(t * t * (3 * WONE - 2 * t), WONE * WONE)

\* pulse(a, b, c, d, x) = Math.min(smoothstep(a, b, x), 1 - smoothstep(c, d, x))
pulse_noInvert(a, b, c, d, x) == Min(smoothstep(a, b, x), smoothstep(c, d, x))
pulse(a, b, c, d, x) == Min(smoothstep(a, b, x), WONE - smoothstep(c, d, x))

\* the edges animate() passes, and the edges of the documented pulse window
LookEdges   == <<480, 520, 580, 620>>
WindowEdges == <<200, 300, 600, 700>>

LookMargin == 100     \* how far below 0 and above 1 the sampled x reach
LookXs == (0 - LookMargin)..(WONE + LookMargin)

\* animate(): const w = pulse(a, b, c, d, tMove), with tMove = x
LookFrame(x) ==
    /\ lookX' = x
    /\ lookW' = pulse(lookEdges[1], lookEdges[2], lookEdges[3], lookEdges[4], x)
    /\ UNCHANGED lookEdges

LookInit ==
    /\ lookEdges \in {LookEdges, WindowEdges}
    /\ lookX = 0
    /\ lookW = pulse(lookEdges[1], lookEdges[2], lookEdges[3], lookEdges[4], 0)

(***************************************************************************)
(* main.ts / part_002: position on the closed track                        *)
(***************************************************************************)
\* JavaScript's a % m for m > 0: the remainder has the sign of a
JsMod(a, m) == Sign(a) * (Abs(a) % m)

\* const tMove = ((ride.t % 1) + 1) % 1
tMoveOf_singleMod(t) == JsMod(t, ONE)
tMoveOf(t) == JsMod(JsMod(t, ONE) + ONE, ONE)

\* lengths along the track are kept in centimetres
curveLength      == 3824        \* centerCurve.getLength() of the six control points
SLEEPERS_AHEAD   == 200
SLEEPERS_BEHIND  == 200
SLEEPER_SPACING  == 45
\* Math.ceil((SLEEPERS_AHEAD + SLEEPERS_BEHIND) / SLEEPER_SPACING)
sleeperPoolCount ==
    (SLEEPERS_AHEAD + SLEEPERS_BEHIND + SLEEPER_SPACING - 1) \div SLEEPER_SPACING

\* distToT(dist): d = ((dist % L) + L) % L; u = d / L.  The model keeps u as
\* the numerator d of the fraction d / curveLength.
distToT_singleMod(dist) == JsMod(dist, curveLength)
distToT(dist) == JsMod(JsMod(dist, curveLength) + curveLength, curveLength)

\* updateSleepers: const currentDist = tMove * curveLength
currentDist(tm) == RoundDiv(tm * curveLength, ONE)
\* const localOffset = i * SLEEPER_SPACING - SLEEPERS_BEHIND
localOffset(i) == i * SLEEPER_SPACING - SLEEPERS_BEHIND
\* the t computed for every sleeper of the pool
sleeperTs(tm) ==
    [i \in 0..(sleeperPoolCount - 1) |-> distToT(currentDist(tm) + localOffset(i))]

TrackGrid == 20       \* values of ride.t tried: multiples of 1/TrackGrid
RideTs ==
    {Div(i * ONE, TrackGrid) : i \in (0 - 2 * TrackGrid)..(3 * TrackGrid)}
        \cup {-1, 1, ONE - 1, ONE + 1}

\* animate() from "const tMove = ..." on, with ride.t = t: wrap, updateSleepers
Pose(t) ==
    /\ rideT' = t
    /\ tMove' = tMoveOf(t)
    /\ LET step == currentDist(tMove') \div SLEEPER_SPACING IN
         IF step = lastSleeperStep
         THEN UNCHANGED <<lastSleeperStep, sleeperT>>
         ELSE /\ lastSleeperStep' = step
              /\ sleeperT' = sleeperTs(tMove')
    /\ UNCHANGED <<scrollT, inCutscene, cutscenePlayed, cutTween, cutsceneStarts, autoT>>

\* part_002: speed = 0.03 per second, tMove kept at the resolution 1e-5
AutoFrameTimes == {0, 16, 50, 1000, 40000}
AUTO_ONE == 100000
autoStep(dt) == 3 * dt
\* part_002 animate: tMove = (tMove + dt * speed) % 1
AutoAnimate(dt) ==
    /\ autoT' = JsMod(autoT + autoStep(dt), AUTO_ONE)
    /\ UNCHANGED <<tMove, lastSleeperStep, sleeperT>>

\* main.ts after the script has run: animate() was called once with ride.t = 0
TrackInit ==
    /\ tMove = tMoveOf(0)
    /\ lastSleeperStep = 0
    /\ sleeperT = sleeperTs(tMoveOf(0))
    /\ autoT = 0

(***************************************************************************)
(* main.ts / part_002: THREE.Vector3 and the frame of a sleeper            *)
(***************************************************************************)
\* A vector is kept exactly as its direction d (a primitive integer triple)
\* and its squared length n / m; the zero vector has n = 0.
RECURSIVE GCD(_, _)
GCD(a, b) == IF b = 0 THEN a ELSE GCD(b, a % b)

Dot3(a, b)   == a[1] * b[1] + a[2] * b[2] + a[3] * b[3]
Cross3(a, b) == <<a[2] * b[3] - a[3] * b[2],
                  a[3] * b[1] - a[1] * b[3],
                  a[1] * b[2] - a[2] * b[1]>>
Primitive(d) ==
    LET g == GCD(GCD(Abs(d[1]), Abs(d[2])), Abs(d[3]))
    IN  IF g = 0 THEN d ELSE <<d[1] \div g, d[2] \div g, d[3] \div g>>

\* new THREE.Vector3()
ZeroVec == [d |-> <<0, 0, 0>>, n |-> 0, m |-> 1]
\* a vector of length 1 along d
UnitVec(d) == [d |-> Primitive(d), n |-> 1, m |-> 1]

WORLD_UP == UnitVec(<<0, 1, 0>>)
WORLD_X  == UnitVec(<<1, 0, 0>>)      \* new THREE.Vector3(1, 0, 0)

\* Vector3.crossVectors(a, b): |a x b|^2 = |a|^2 |b|^2 sin^2, where sin^2 is 1
\* for perpendicular a and b and |a.d x b.d|^2 / (|a.d|^2 |b.d|^2) in general
crossVectors(a, b) ==
    LET c == Cross3(a.d, b.d) IN
    IF a.n = 0 \/ b.n = 0 \/ c = <<0, 0, 0>> THEN ZeroVec
    ELSE IF Dot3(a.d, b.d) = 0
    THEN [d |-> Primitive(c), n |-> a.n * b.n, m |-> a.m * b.m]
    ELSE [d |-> Primitive(c),
          n |-> a.n * b.n * Dot3(c, c),
          m |-> a.m * b.m * Dot3(a.d, a.d) * Dot3(b.d, b.d)]

\* Vector3.normalize(): divideScalar(this.length() || 1)
normalize(v) == IF v.n = 0 THEN v ELSE [d |-> v.d, n |-> 1, m |-> 1]

\* "tmpRight.lengthSq() < 1e-8"
LENGTH_EPS_INV == 100000000
nearZero(v) == v.n <= (v.m - 1) \div LENGTH_EPS_INV

\* tmpRight.crossVectors(WORLD_UP, tangent); if (tmpRight.lengthSq() < 1e-8)
\* tmpRight.crossVectors(new THREE.Vector3(1, 0, 0), tangent); tmpRight.normalize()
rightOf_noFallback(tg) == normalize(crossVectors(WORLD_UP, tg))
rightOf(tg) ==
    IF nearZero(crossVectors(WORLD_UP, tg))
    THEN normalize(crossVectors(WORLD_X, tg))
    ELSE normalize(crossVectors(WORLD_UP, tg))

\* tmpUp.crossVectors(tangent, tmpRight).normalize()
upOf(tg, right) == normalize(crossVectors(tg, right))

FrameGrid == 2        \* tangent directions tried: integer triples up to FrameGrid
STEEP == 20000        \* slope of the almost vertical tangents tried
\* directions of centerCurve.getTangentAt(t): any direction, with the vertical,
\* the almost vertical (|up x t|^2 about 2.5e-9) and the steep (4e-8) ones
TangentDirs ==
    ({<<x, y, z>> : x \in (0 - FrameGrid)..FrameGrid, y \in (0 - FrameGrid)..FrameGrid,
                    z \in (0 - FrameGrid)..FrameGrid} \ {<<0, 0, 0>>})
    \cup {<<1, STEEP, 0>>, <<0, 0 - STEEP, 1>>, <<0 - 1, STEEP, 1>>, <<4, STEEP, 0>>}

\* updateSleepers / the sleeper loop of part_002, for one sleeper whose
\* tangent on the curve has direction dir
SleeperFrame(dir) ==
    /\ tangent' = normalize(UnitVec(dir))
    /\ tmpRight' = rightOf(tangent')
    /\ tmpUp' = upOf(tangent', tmpRight')

FrameInit ==
    /\ tangent = ZeroVec
    /\ tmpRight = ZeroVec
    /\ tmpUp = ZeroVec

(***************************************************************************)
(* main.ts / part_002: the centre curve and the two rail curves            *)
(***************************************************************************)
\* Coordinates are kept in millimetres, unit vectors in units of 1 / UNIT, a
\* curve parameter t in units of 1 / T_ONE and arc lengths in tenths of a
\* millimetre.  Every division rounds to the nearest unit.
MM     == 1000
UNIT   == 10000
T_ONE  == 10000
LEN_MM == 10

\* floor of the square root of n >= 0 (Newton's iteration from x)
RECURSIVE Newton(_, _)
Newton(n, x) ==
    LET y == (x + n \div x) \div 2 IN IF y >= x THEN x ELSE Newton(n, y)
Isqrt(n) == IF n < 2 THEN n ELSE Newton(n, Min(n, 46340))

Add3(a, b)   == <<a[1] + b[1], a[2] + b[2], a[3] + b[3]>>
Sub3(a, b)   == <<a[1] - b[1], a[2] - b[2], a[3] - b[3]>>
\* a * n / d, component by component
Scale3(a, n, d) == <<Div(a[1] * n, d), Div(a[2] * n, d), Div(a[3] * n, d)>>
\* |a - b| in tenths of a millimetre, for points at most 0.4 m apart
Dist3(a, b) == Isqrt(LEN_MM * LEN_MM * Dot3(Sub3(a, b), Sub3(a, b)))
\* v / |v| in units of 1 / UNIT (v of any scale up to 26000 a component);
\* Vector3.normalize leaves the zero vector alone
Normalize3(v) ==
    LET len == Isqrt(Dot3(v, v)) IN IF len = 0 THEN v ELSE Scale3(v, UNIT, len)

\* const points = [...], in metres
points == <<<<-6, 0, -3>>, <<-3, 2, 3>>, <<0, 0, 6>>,
            <<3, 2, 3>>, <<6, 0, -3>>, <<0, 1, -6>>>>

\* CatmullRomCurve3 (closed, "catmullrom", tension 0.5): the coefficients of
\* one coordinate of the segment from x1 to x2, in millimetres:
\* init(x1, x2, tension * (x2 - x0), tension * (x3 - x1))
cubic(x0, x1, x2, x3) ==
    LET t0 == (MM * (x2 - x0)) \div 2
        t1 == (MM * (x3 - x1)) \div 2
    IN  <<MM * x1, t0,
          MM * (3 * x2 - 3 * x1) - 2 * t0 - t1,
          MM * (2 * x1 - 2 * x2) + t0 + t1>>

\* the four control points around parameter t, and the weight inside the segment
segmentOf(t) == ((Len(points) * t) \div T_ONE) % Len(points)
weightOf(t)  == (Len(points) * t) % T_ONE
control(t, k) == points[((segmentOf(t) + Len(points) + k) % Len(points)) + 1]
coefficients(t, c) ==
    cubic(control(t, -1)[c], control(t, 0)[c], control(t, 1)[c], control(t, 2)[c])

\* c0 + c1 w + c2 w^2 + c3 w^3 and its derivative, w in units of 1 / T_ONE
calc(c, w) ==
    c[1] + Div((c[2] + Div((c[3] + Div(c[4] * w, T_ONE)) * w, T_ONE)) * w, T_ONE)
calcSlope(c, w) ==
    c[2] + Div((2 * c[3] + Div(3 * c[4] * w, T_ONE)) * w, T_ONE)

\* centerCurve.getPoint(t), in millimetres
getPoint(t) ==
    <<calc(coefficients(t, 1), weightOf(t)),
      calc(coefficients(t, 2), weightOf(t)),
      calc(coefficients(t, 3), weightOf(t))>>

\* centerCurve.getTangent(t): the direction of getPoint(t + d) - getPoint(t - d)
\* for d = 0.0001, taken as the direction of the derivative; length 1
getTangent(t) ==
    Normalize3(<<calcSlope(coefficients(t, 1), weightOf(t)),
                 calcSlope(coefficients(t, 2), weightOf(t)),
                 calcSlope(coefficients(t, 3), weightOf(t))>>)

\* Curve.getLengths(): the cumulative chord lengths over arcLengthDivisions
\* equal steps of t; entry k is the length up to t = k / arcLengthDivisions
arcLengthDivisions == 200
T_STEP == T_ONE \div arcLengthDivisions
\* f[lo] + ... + f[hi]
RECURSIVE SumRange(_, _, _)
SumRange(f, lo, hi) ==
    IF lo > hi THEN 0
    ELSE IF lo = hi THEN f[lo]
    ELSE SumRange(f, lo, (lo + hi) \div 2) + SumRange(f, ((lo + hi) \div 2) + 1, hi)
centerChords ==
    [k \in 1..arcLengthDivisions |->
        Dist3(getPoint(k * T_STEP), getPoint((k - 1) * T_STEP))]
centerLengths ==
    [k \in 0..arcLengthDivisions |-> SumRange(centerChords, 1, k)]

\* Curve.getUtoTmapping(u) for u = num / den: the division the target length
\* falls in, then linear interpolation inside it
getUtoTmapping(num, den) ==
    LET targetLength == RoundDiv(num * centerLengths[arcLengthDivisions], den)
        i == CHOOSE j \in 0..arcLengthDivisions :
                /\ centerLengths[j] <= targetLength
                /\ (j = arcLengthDivisions \/ centerLengths[j + 1] > targetLength)
    IN  IF centerLengths[i] = targetLength THEN i * T_STEP
        ELSE i * T_STEP + RoundDiv((targetLength - centerLengths[i]) * T_STEP,
                                   centerLengths[i + 1] - centerLengths[i])

getPointAt(num, den)   == getPoint(getUtoTmapping(num, den))
getTangentAt(num, den) == getTangent(getUtoTmapping(num, den))

gauge        == 1000        \* const gauge = 1.0, in millimetres
railSegments == 500

\* the right vector of the rail loop, from the unit tangent tg:
\* crossVectors(WORLD_UP, tangent), the world-X fallback, normalize()
crossUnit(a, b) == Scale3(Cross3(a, b), 1, UNIT)
railRight(tg) ==
    LET r == crossUnit(<<0, UNIT, 0>>, tg) IN
    IF Dot3(r, r) < (UNIT * UNIT) \div LENGTH_EPS_INV
    THEN Normalize3(crossUnit(<<UNIT, 0, 0>>, tg))
    ELSE Normalize3(r)

\* p.clone().addScaledVector(tmpRight, +gauge / 2) and (tmpRight, -gauge / 2)
leftPoint(pt, right)  == Add3(pt, Scale3(right, gauge \div 2, UNIT))
rightPoint_sameSide(pt, right) == Add3(pt, Scale3(right, gauge \div 2, UNIT))
rightPoint(pt, right) == Add3(pt, Scale3(right, 0 - (gauge \div 2), UNIT))

\* what the rail loop computes for each i: the centre point and the right vector
centerSamples ==
    [i \in 0..railSegments |-> getPointAt(i, railSegments)]
rightSamples ==
    [i \in 0..railSegments |-> railRight(Normalize3(getTangentAt(i, railSegments)))]

\* one pass of "for (let i = 0; i <= railSegments; i++)"
RailSample ==
    /\ Len(leftPts) <= railSegments
    /\ LET i == Len(leftPts) IN
         /\ leftPts'  = Append(leftPts, leftPoint(centerSamples[i], rightSamples[i]))
         /\ rightPts' = Append(rightPts, rightPoint(centerSamples[i], rightSamples[i]))
    /\ UNCHANGED railPair

\* new THREE.CatmullRomCurve3(pts, true).getPointAt(num / den): the point at
\* that fraction of the curve's own length.  The spline through the closely
\* spaced rail points is taken as the polyline through them.
railChords(pts) == [k \in 1..(Len(pts) - 1) |-> Dist3(pts[k + 1], pts[k])]
railLengths(pts) ==
    LET chords == railChords(pts)
    IN  [k \in 1..Len(pts) |-> SumRange(chords, 1, k - 1)]
railPointAt(pts, num, den) ==
    LET lengths == railLengths(pts)
        targetLength  == RoundDiv(num * lengths[Len(pts)], den)
        i == CHOOSE j \in 1..Len(pts) :
                /\ lengths[j] <= targetLength
                /\ (j = Len(pts) \/ lengths[j + 1] > targetLength)
    IN  IF lengths[i] = targetLength THEN pts[i]
        ELSE Add3(pts[i], Scale3(Sub3(pts[i + 1], pts[i]),
                                 targetLength - lengths[i], lengths[i + 1] - lengths[i]))

NoPair == [u |-> 0 - 1, left |-> <<0, 0, 0>>, right |-> <<0, 0, 0>>]
RailUs == {0, 500}                    \* u = 0 and u = 0.5, in thousandths

\* leftCurve.getPointAt(u) and rightCurve.getPointAt(u), once both curves exist
SampleRails(u) ==
    /\ Len(leftPts) = railSegments + 1
    /\ railPair' = [u |-> u, left  |-> railPointAt(leftPts, u, 1000),
                             right |-> railPointAt(rightPts, u, 1000)]
    /\ UNCHANGED <<leftPts, rightPts>>

RailInit ==
    /\ leftPts = <<>>
    /\ rightPts = <<>>
    /\ railPair = NoPair

(***************************************************************************)
(* other.ts: loadImageTexture, createStations                              *)
(***************************************************************************)
\* const projects: id, imageUrls, side, transitions
projects ==
    <<[id |-> "efoyta",  imageUrls |-> <<"/ok.png", "/track_tile.png">>, side |-> 1,
       transitions |-> <<3, 1, 4, 0, 5>>],
      [id |-> "lockout", imageUrls |-> <<"/projects/lockout-1.jpg", "/projects/lockout-2.jpg">>,
       side |-> -1, transitions |-> <<4, 1, 2, 5, 0, 3>>],
      [id |-> "opinion", imageUrls |-> <<"/projects/opinion-1.jpg", "/projects/opinion-2.jpg">>,
       side |-> 1, transitions |-> <<5, 3, 1, 4, 0>>]>>

\* a texture: the image loaded from a url, or the placeholder drawn for a label
imageTexture(url) == [kind |-> "image", of |-> url]
\* makeNeonPlaceholderTexture(`${p.title} (A)`, p.accent), k = "A" or "B"
makeNeonPlaceholderTexture(id, k) == [kind |-> "placeholder", of |-> <<id, k>>]
NoTexture == [kind |-> "none", of |-> ""]

\* the promise returned by loadImageTexture(url, fallback)
NoPromise == [state |-> "none", url |-> "", fallback |-> NoTexture, value |-> NoTexture]
\* loadImageTexture: new Promise((resolve) => texLoader.load(url, ..., ...))
loadImageTexture(url, fallback) ==
    [state |-> "pending", url |-> url, fallback |-> fallback, value |-> NoTexture]
\* texLoader's onLoad callback: resolve(tex)
onLoad(pr) == [pr EXCEPT !.state = "resolved", !.value = imageTexture(pr.url)]
\* texLoader's onError callback: () => resolve(fallback)
onError_reject(pr) == [pr EXCEPT !.state = "rejected"]
onError(pr) == [pr EXCEPT !.state = "resolved", !.value = pr.fallback]

\* the image request started by texLoader.load succeeds
LoadDone ==
    /\ promise.state = "pending"
    /\ promise' = onLoad(promise)
    /\ UNCHANGED <<stations, create>>

\* the image request fails (missing file, network error, empty url)
LoadError ==
    /\ promise.state = "pending"
    /\ promise' = onError(promise)
    /\ UNCHANGED <<stations, create>>

\* the record createStations pushes for project p with the two textures
\* (uTexA, uTexB, uProgress, uTransition: the uniforms of its plane's shader)
newStation(p, texA, texB) ==
    [project |-> projects[p].id, textures |-> <<texA, texB>>,
     uTexA |-> texA, uTexB |-> texB, uProgress |-> 0,
     uTransition |-> IF Len(projects[p].transitions) > 0
                     THEN projects[p].transitions[1] ELSE 0,
     tiltSign |-> projects[p].side,
     imageIndex |-> 0, transitionIndex |-> 0, progress |-> 0,
     swapping |-> FALSE, nextSwapAt |-> 0]

\* createStations() from the top of the loop body for project p to its first await
startStation(p) ==
    IF p > Len(projects)
    THEN [create  |-> [pc |-> "done", p |-> p, texA |-> NoTexture],
          promise |-> NoPromise]
    ELSE [create  |-> [pc |-> "awaitA", p |-> p, texA |-> NoTexture],
          promise |-> loadImageTexture(projects[p].imageUrls[1],
                                       makeNeonPlaceholderTexture(projects[p].id, "A"))]

\* createStations() resumes after the promise it awaits has settled
Resume ==
    /\ create.pc \in {"awaitA", "awaitB"}
    /\ promise.state \in {"resolved", "rejected"}
    /\ IF promise.state = "rejected"
       THEN \* the await throws: createStations().catch(console.error)
            /\ create' = [create EXCEPT !.pc = "failed"]
            /\ promise' = NoPromise
            /\ UNCHANGED stations
       ELSE IF create.pc = "awaitA"
       THEN /\ create' = [create EXCEPT !.pc = "awaitB", !.texA = promise.value]
            /\ promise' = loadImageTexture(projects[create.p].imageUrls[2],
                              makeNeonPlaceholderTexture(projects[create.p].id, "B"))
            /\ UNCHANGED stations
       ELSE /\ stations' = Append(stations, newStation(create.p, create.texA, promise.value))
            /\ create' = startStation(create.p + 1).create
            /\ promise' = startStation(create.p + 1).promise

\* other.ts animate: "Stable tilt toward camera"; crossY in thousandths
deadZone == 40
\* crossY of a frame: baseForward.x * toCam.z - baseForward.z * toCam.x, both
\* vectors flat and of length 1 (or shorter), so |crossY| <= 1.  The camera
\* positions tried, each as the crossY it gives for the three stations:
CrossYs ==
    {<<0, 0, 0>>, <<40, 0 - 40, 40>>, <<41, 0 - 41, 0>>, <<0 - 41, 41, 0 - 1000>>,
     <<0 - 40, 1000, 41>>, <<1000, 0 - 1000, 0 - 41>>, <<39, 0 - 39, 0 - 40>>}

\* if (crossY > deadZone) s.tiltSign = -1; else if (crossY < -deadZone) s.tiltSign = 1
tiltSignOf_noDeadZone(s, crossY) ==
    IF crossY > 0 THEN -1 ELSE IF crossY < 0 THEN 1 ELSE s.tiltSign
tiltSignOf(s, crossY) ==
    IF crossY > deadZone THEN -1
    ELSE IF crossY < 0 - deadZone THEN 1
    ELSE s.tiltSign

\* other.ts animate(), one frame: camera travel, then "for (const s of stations)"
\* with crossY[i] the cross product found for station i
StationsAnimate(dt, crossY) ==
    /\ ProjAnimate(dt)
    /\ stations' = [i \in 1..Len(stations) |->
                      [stations[i] EXCEPT !.tiltSign = tiltSignOf(stations[i], crossY[i])]]
    /\ UNCHANGED <<create, promise>>

\* after the script has run: createStations() stands at its first await
StationsInit ==
    /\ stations = <<>>
    /\ create = startStation(1).create
    /\ promise = startStation(1).promise

\* pages without stations
StationsIdle ==
    /\ stations = <<>>
    /\ create = [pc |-> "idle", p |-> 0, texA |-> NoTexture]
    /\ promise = NoPromise

(***************************************************************************)
(* other.ts: focus mode and image cycling                                  *)
(***************************************************************************)
\* focus = null
NoFocus == [stationId |-> "", returnT |-> 0]

\* time between the last frame and a click, in milliseconds
ClickDelays == {0, 250}
\* the stations the visitor clicks (the third stays on stage, never focused)
FocusStations == {1, 2}
\* the camera views of these frames, as the crossY they give the three stations
GalleryViews == {<<0, 0, 0>>, <<1000, 0 - 1000, 0 - 41>>}

MaxTime == 5500       \* the session is followed for this many milliseconds
MaxTravel == 2        \* wheel and touch are followed up to this targetT (in ONE units)

SWAP_DONE == (985 * EONE) \div 1000            \* "station.progress > 0.985"
SWAP_SPEED == EONE \div 10                      \* expMoveNumber(..., dt, 0.10)
FOCUS_DELAY == 650                              \* clock.getElapsedTime() + 0.65
SWAP_PERIOD == 3200                             \* time + 3.2

\* Math.pow(b, e) for a whole number e >= 0, b and the result in EONE units
RECURSIVE PowInt(_, _)
PowInt(b, e) ==
    IF e = 0 THEN EONE
    ELSE LET h == PowInt(b, e \div 2)
             sq == RoundDiv(h * h, EONE)
         IN IF e % 2 = 0 THEN sq ELSE RoundDiv(b * sq, EONE)

\* 1 - Math.pow(1 - speed, dt * 60) for the speed and the frame times in use
expMoveFactors ==
    [speed \in {SWAP_SPEED}, dt \in SwapFrameTimes |->
        EONE - PowInt(EONE - speed, (dt * 60) \div 1000)]

\* expMoveNumber(current, target, dt, speed): t = 1 - Math.pow(1 - speed, dt * 60)
expMoveNumber_wholeSeconds(current, tgt, dt, speed) ==
    LET t == EONE - PowInt(EONE - speed, (dt \div 1000) * 60)
    IN current + RoundDiv((tgt - current) * t, EONE)
expMoveNumber(current, tgt, dt, speed) ==
    current + RoundDiv((tgt - current) * expMoveFactors[speed, dt], EONE)

\* the project of a station
ProjectOf(s) == CHOOSE p \in 1..Len(projects) : projects[p].id = s.project

\* startSwap(station): the station after the call
startSwap(s) ==
    IF Len(s.textures) < 2 THEN s
    ELSE IF s.swapping THEN s
    ELSE LET nextImageIndex == (s.imageIndex + 1) % Len(s.textures)
             list == IF Len(projects[ProjectOf(s)].transitions) > 0
                     THEN projects[ProjectOf(s)].transitions ELSE <<0>>
         IN [s EXCEPT !.uTexA = s.textures[s.imageIndex + 1],
                      !.uTexB = s.textures[nextImageIndex + 1],
                      !.uTransition = list[(s.transitionIndex % Len(list)) + 1],
                      !.progress = 0,
                      !.uProgress = 0,
                      !.swapping = TRUE]

\* updateSwap(station, dt): the station after the call
updateSwap_noIndex(s, dt) ==
    IF ~s.swapping THEN s
    ELSE LET pr == expMoveNumber(s.progress, EONE, dt, SWAP_SPEED) IN
         IF pr > SWAP_DONE
         THEN [s EXCEPT !.swapping = FALSE, !.progress = EONE, !.uProgress = EONE]
         ELSE [s EXCEPT !.progress = pr, !.uProgress = pr]
updateSwap(s, dt) ==
    IF ~s.swapping THEN s
    ELSE LET pr == expMoveNumber(s.progress, EONE, dt, SWAP_SPEED) IN
         IF pr > SWAP_DONE
         THEN [s EXCEPT !.imageIndex = (s.imageIndex + 1) % Len(s.textures),
                        !.transitionIndex =
                            (s.transitionIndex + 1)
                                % Max(1, Len(projects[ProjectOf(s)].transitions)),
                        !.swapping = FALSE,
                        !.progress = EONE,
                        !.uProgress = EONE]
         ELSE [s EXCEPT !.progress = pr, !.uProgress = pr]

\* animate(), "Focused: cycle images automatically every few seconds", then
\* updateSwap(s, dt): station s after the frame that reads the clock at now
cycleImages_anyStation(s, dt, now) ==
    updateSwap(IF ~s.swapping /\ now >= s.nextSwapAt
               THEN [startSwap(s) EXCEPT !.nextSwapAt = now + SWAP_PERIOD] ELSE s, dt)
cycleImages(s, dt, now) ==
    LET started ==
          IF focus /\ focusInfo.stationId = s.project
          THEN IF ~s.swapping /\ now >= s.nextSwapAt
               THEN [startSwap(s) EXCEPT !.nextSwapAt = now + SWAP_PERIOD]
               ELSE s
          ELSE s
    IN updateSwap(started, dt)

\* exitFocus(): empty-space click while focused, or Escape
exitFocus ==
    /\ focus' = FALSE
    /\ focusInfo' = NoFocus
    /\ UNCHANGED <<targetT, currentT, touchY, time, stationVars>>

\* pointerdown on empty space: "if (focus) exitFocus(); return"
PointerDownEmpty ==
    IF focus THEN exitFocus
    ELSE UNCHANGED <<projVars, touchY, galleryVars, stationVars>>

\* keydown Escape
KeyEscape == exitFocus

\* pointerdown on the plane of station i, e milliseconds after the last frame:
\* enterFocus(stationId, obj); clock.getElapsedTime() moves the clock on
enterFocus(i, e) ==
    /\ i \in 1..Len(stations)
    /\ time + e <= MaxTime
    /\ focus' = TRUE
    /\ focusInfo' = [stationId |-> stations[i].project, returnT |-> currentT]
    /\ stations' = [stations EXCEPT ![i].nextSwapAt = time + e + FOCUS_DELAY]
    /\ time' = time + e
    /\ UNCHANGED <<targetT, currentT, touchY, create, promise>>

\* other.ts animate(), one frame with stations on stage: camera travel (or
\* focus mode), tilt, image cycling, updateSwap
GalleryAnimate(dt, crossY) ==
    /\ time + dt <= MaxTime
    /\ time' = time + dt
    /\ currentT' = projCurrent(dt)
    /\ stations' = [i \in 1..Len(stations) |->
                      cycleImages([stations[i] EXCEPT
                                      !.tiltSign = tiltSignOf(stations[i], crossY[i])],
                                  dt, time + dt)]
    /\ UNCHANGED <<targetT, focus, focusInfo, touchY, create, promise>>

\* after createStations() has pushed the three stations (images loaded)
GalleryInit ==
    /\ stations = [p \in 1..Len(projects) |->
                     newStation(p, imageTexture(projects[p].imageUrls[1]),
                                   imageTexture(projects[p].imageUrls[2]))]
    /\ create = startStation(Len(projects) + 1).create
    /\ promise = NoPromise
    /\ time = 0
    /\ focusInfo = NoFocus

\* pages without focus mode
GalleryIdle == time = 0 /\ focusInfo = NoFocus

(***************************************************************************)
(* myself.ts / part_000: particle demo, the displacement canvas            *)
(***************************************************************************)
CANVAS_SIZE == 128     \* displacement.canvas.width / height
GlowWidth   == 64      \* intrinsic width of glow.png once decoded (any positive)

\* an HTMLImageElement as the script can see it
ImageLoading == [complete |-> FALSE, naturalWidth |-> 0]
ImageSized   == [complete |-> FALSE, naturalWidth |-> GlowWidth]   \* header decoded
ImageLoaded  == [complete |-> TRUE,  naturalWidth |-> GlowWidth]
ImageBroken  == [complete |-> TRUE,  naturalWidth |-> 0]           \* load failed

\* where the pointer's ray hits the interactive plane: nowhere, or at uv
NoHit == <<9999, 9999>>
CursorCells == {<<x, y>> : x \in {0, CANVAS_SIZE}, y \in {0, CANVAS_SIZE}}

\* CanvasRenderingContext2D.drawImage(img, ...): throws InvalidStateError for
\* a broken image, draws nothing for an image not yet fully loaded
drawImage(img) ==
    IF img.complete /\ img.naturalWidth = 0 THEN "throws"
    ELSE IF ~img.complete THEN "nothing"
    ELSE "drawn"

\* the condition under which tick calls drawImage
\* myself.ts: if (img.complete && img.naturalWidth > 0)
\* part_000:  if (displacement.glowImage.complete)
glowGuard(img) ==
    IF page = "particles" THEN img.complete /\ img.naturalWidth > 0
    ELSE img.complete

\* const alpha = Math.min(cursorDistance * 0.05, 1), in hundredths
speedAlpha(a, b) == Min(5 * Isqrt(Dot3(<<a[1] - b[1], a[2] - b[2], 0>>,
                                       <<a[1] - b[1], a[2] - b[2], 0>>)), 100)

\* window "pointermove": the ray through the pointer now hits the plane at c
PointerMove(c) ==
    /\ displacement' = [displacement EXCEPT !.screenCursor = c]
    /\ UNCHANGED tickLoop

\* the browser finishes (or gives up) loading displacement.glowImage
ImageProgress(img) ==
    /\ ~displacement.glowImage.complete
    /\ img # ImageLoading
    /\ displacement' = [displacement EXCEPT !.glowImage = img]
    /\ UNCHANGED tickLoop

\* tick(): raycast, fade, speed alpha, draw glow, texture, render, next frame
tick ==
    /\ tickLoop = "scheduled"
    /\ LET cursor == IF displacement.screenCursor = NoHit
                     THEN displacement.canvasCursor
                     ELSE displacement.screenCursor
           drawn  == IF glowGuard(displacement.glowImage)
                     THEN drawImage(displacement.glowImage)
                     ELSE "skipped"
       IN /\ displacement' =
                [displacement EXCEPT
                    !.canvasCursor = cursor,
                    !.canvasCursorPrevious = cursor,
                    !.globalAlpha = speedAlpha(displacement.canvasCursorPrevious, cursor),
                    !.glow = drawn,
                    !.rendered = (drawn # "throws")]
          \* an exception leaves tick before renderer.render and requestAnimationFrame
          /\ tickLoop' = IF drawn = "throws" THEN "stopped" ELSE "scheduled"

\* after the script has run: the image is requested and tick() ran once
ParticlesInit ==
    /\ displacement = [glowImage |-> ImageLoading, screenCursor |-> NoHit,
                       canvasCursor |-> NoHit, canvasCursorPrevious |-> NoHit,
                       globalAlpha |-> 0, glow |-> "skipped", rendered |-> TRUE]
    /\ tickLoop = "scheduled"

\* the pages that run neither the look blend nor the track on their own
LookIdle ==
    /\ lookEdges = LookEdges
    /\ lookX = 0
    /\ lookW = 0
ExtraIdle ==
    /\ LookIdle
    /\ TrackInit
    /\ FrameInit
    /\ RailInit
    /\ StationsIdle
    /\ ParticlesInit
    /\ GalleryIdle

(***************************************************************************)
(* Specifications: one page (demo script) runs, the others are not loaded  *)
(***************************************************************************)
AppIdle ==
    /\ hasPlayedEntryCinematic = FALSE
    /\ cinematic = NoTween
    /\ activeWorld = "education"
    /\ transition = NoTransition

\* observation only: the handler that ran last, with its input
Start == [op |-> "start", arg |-> 0]
Did(op, arg) == last' = [op |-> op, arg |-> arg]

\* ---- main.ts ----
RideOnly == UNCHANGED <<extraVars, scrollVars, appVars, projVars, pathVars, touchY, page, frames>>
InitRide ==
    /\ page = "ride" /\ last = Start /\ touchY = 0 /\ frames = 0
    /\ RideInit /\ ScrollInit /\ AppIdle /\ ProjInit /\ PathInit /\ ExtraIdle
NextRide ==
    \/ \E p \in ScrollProgressValues : OnUpdate(p) /\ Did("onUpdate", p) /\ RideOnly
    \/ Animate /\ Did("animate", 0) /\ RideOnly
    \/ TweenTick /\ Did("tweenTick", 0) /\ RideOnly
    \/ TweenComplete /\ Did("cutsceneComplete", scrollT) /\ RideOnly
SpecRide == InitRide /\ [][NextRide]_vars

\* ---- myself.ts, the ScrollController class under any caller ----
ScrollOnly == UNCHANGED <<extraVars, rideVars, appVars, projVars, pathVars, touchY, page, frames>>
InitScroll ==
    /\ page = "scroll" /\ last = Start /\ touchY = 0 /\ frames = 0
    /\ RideInit /\ ScrollInit /\ AppIdle /\ ProjInit /\ PathInit /\ ExtraIdle
NextScroll ==
    \/ \E deltaY \in WheelDeltas : Wheel(deltaY) /\ Did("wheel", deltaY) /\ ScrollOnly
    \/ \E v \in InstantValues : SetInstant(v) /\ Did("setInstant", v) /\ ScrollOnly
    \/ \E v \in InstantValues : SetTarget(v) /\ Did("setTarget", v) /\ ScrollOnly
    \/ \E dt \in FrameTimes : Update(dt) /\ Did("update", dt) /\ ScrollOnly
    \/ \E b \in BOOLEAN : SetEnabled(b) /\ Did("setEnabled", 0) /\ ScrollOnly
SpecScroll == InitScroll /\ [][NextScroll]_vars

\* ---- myself.ts, the App ----
AppOnly == UNCHANGED <<extraVars, rideVars, projVars, pathVars, touchY, page, frames, last>>
InitApp ==
    /\ page = "app" /\ last = Start /\ touchY = 0 /\ frames = 0
    /\ RideInit /\ AppInit /\ ProjInit /\ PathInit /\ ExtraIdle
NextApp ==
    \/ \E deltaY \in WheelDeltas : AppWheel(deltaY) /\ AppOnly
    \/ \E id \in WorldIds : RequestWorld(id) /\ AppOnly
    \/ KeyReset /\ AppOnly
    \/ \E dt \in FrameTimes : Tick(dt) /\ AppOnly
    \/ CinematicTick /\ AppOnly
    \/ CinematicComplete /\ AppOnly
    \/ TransitionTick /\ AppOnly
    \/ TransitionComplete /\ AppOnly
SpecApp == InitApp /\ [][NextApp]_vars

\* ---- myself.ts, the App with its inputs observed: last is the last input ----
\* (wheel, key "1"/"2" with or without the world hooks, key "r"); frames and
\* ticker samples leave it alone
KeyOf(id) == IF id = "education" THEN 1 ELSE 2
KeysOnly == UNCHANGED <<extraVars, rideVars, projVars, pathVars, touchY, page, frames>>
KeysKeep == KeysOnly /\ UNCHANGED last
InitKeys ==
    /\ page = "keys" /\ last = Start /\ touchY = 0 /\ frames = 0
    /\ RideInit /\ AppInit /\ ProjInit /\ PathInit /\ ExtraIdle
NextKeys ==
    \/ \E deltaY \in WheelDeltas : AppWheel(deltaY) /\ Did("wheel", 0) /\ KeysOnly
    \/ \E id \in WorldIds :
          /\ RequestWorld(id)
          /\ Did(IF id = activeWorld THEN "key" ELSE "enter", KeyOf(id))
          /\ KeysOnly
    \/ KeyReset /\ Did("reset", 0) /\ KeysOnly
    \/ \E dt \in FrameTimes : Tick(dt) /\ KeysKeep
    \/ CinematicTick /\ KeysKeep
    \/ CinematicComplete /\ KeysKeep
    \/ TransitionTick /\ KeysKeep
    \/ TransitionComplete /\ KeysKeep
SpecKeys == InitKeys /\ [][NextKeys]_vars

\* ---- myself.ts, the App driven by the keys "1", "2" and "r" ----
\* last.arg is the key of the world whose onEnter hook ran last (0: none since
\* the constructor's); a key for the active world is ignored by requestWorld
InitWorlds ==
    /\ page = "worlds" /\ last = Start /\ touchY = 0 /\ frames = 0
    /\ RideInit /\ AppInit /\ ProjInit /\ PathInit /\ ExtraIdle
NextWorlds ==
    \/ \E id \in WorldIds :
          /\ RequestWorld(id)
          /\ IF id = activeWorld THEN Did("key", last.arg) ELSE Did("enter", KeyOf(id))
          /\ KeysOnly
    \/ KeyReset /\ Did("reset", last.arg) /\ KeysOnly
    \/ \E dt \in FrameTimes : Tick(dt) /\ KeysKeep
    \/ CinematicTick /\ KeysKeep
    \/ CinematicComplete /\ KeysKeep
    \/ TransitionTick /\ KeysKeep
    \/ TransitionComplete /\ KeysKeep
SpecWorlds == InitWorlds /\ [][NextWorlds]_vars

\* ---- other.ts with its stations on stage: the visitor scrolls and focuses ----
\* ---- the first station ----
GalleryOnly ==
    UNCHANGED <<rideVars, scrollVars, appVars, pathVars, lookVars, trackVars,
                frameVars, railVars, particleVars, page, frames, last>>
InitGallery ==
    /\ page = "gallery" /\ last = Start /\ touchY = 0 /\ frames = 0
    /\ RideInit /\ ScrollInit /\ AppIdle /\ ProjInit /\ PathInit
    /\ LookIdle /\ TrackInit /\ FrameInit /\ RailInit /\ ParticlesInit /\ GalleryInit
NextGallery ==
    \/ \E d \in PathWheelDeltas :
          /\ targetT <= MaxTravel
          /\ ProjWheel(d) /\ UNCHANGED <<galleryVars, stationVars>> /\ GalleryOnly
    \/ \E y \in TouchYs :
          ProjTouchStart(y) /\ UNCHANGED <<galleryVars, stationVars>> /\ GalleryOnly
    \/ \E y \in TouchYs :
          /\ targetT <= MaxTravel
          /\ ProjTouchMove(y) /\ UNCHANGED <<galleryVars, stationVars>> /\ GalleryOnly
    \/ \E e \in ClickDelays : enterFocus(1, e) /\ GalleryOnly
    \/ PointerDownEmpty /\ GalleryOnly
    \/ KeyEscape /\ GalleryOnly
    \/ \E dt \in SwapFrameTimes, crossY \in GalleryViews :
          GalleryAnimate(dt, crossY) /\ GalleryOnly
SpecGallery == InitGallery /\ [][NextGallery]_vars

\* ---- other.ts with its stations on stage, the visitor only clicks ----
NextCycling ==
    \/ \E i \in FocusStations, e \in ClickDelays : enterFocus(i, e) /\ GalleryOnly
    \/ PointerDownEmpty /\ GalleryOnly
    \/ KeyEscape /\ GalleryOnly
    \/ \E dt \in SwapFrameTimes, crossY \in GalleryViews :
          GalleryAnimate(dt, crossY) /\ GalleryOnly
SpecCycling == InitGallery /\ [][NextCycling]_vars

\* ---- other.ts with its stations on stage, frames keep coming ----
\* (clicks land on frame times)
SwapHorizon == 2500   \* this session is followed for so many milliseconds
SwapsInput ==
    /\ \/ \E i \in FocusStations : enterFocus(i, 0)
       \/ PointerDownEmpty
       \/ KeyEscape
    /\ GalleryOnly
SwapsFrame(dt) ==
    /\ time + dt <= SwapHorizon
    /\ \E crossY \in GalleryViews : GalleryAnimate(dt, crossY) /\ GalleryOnly
\* a frame that takes time: requestAnimationFrame(animate) with dt > 0
SwapsTimedFrame == \E dt \in SwapFrameTimes \ {0} : SwapsFrame(dt)
NextSwaps ==
    \/ SwapsInput
    \/ SwapsFrame(0)
    \/ SwapsTimedFrame
SpecSwaps == InitGallery /\ [][NextSwaps]_vars /\ WF_vars(SwapsTimedFrame)

\* ---- the three progress followers: ScrollController, other.ts, part_001 ----
ProjOnly == UNCHANGED <<extraVars, rideVars, scrollVars, appVars, pathVars, page, frames>>
PathOnly == UNCHANGED <<extraVars, rideVars, scrollVars, appVars, projVars, page, frames>>
InitFollowers ==
    /\ page \in {"scroll", "projects", "path"} /\ last = Start /\ touchY = 0 /\ frames = 0
    /\ RideInit /\ ScrollInit /\ AppIdle /\ ProjInit /\ PathInit /\ ExtraIdle
NextFollowers ==
    \/ /\ page = "scroll"
       /\ \/ \E deltaY \in WheelDeltas : Wheel(deltaY) /\ Did("wheel", 0)
          \/ \E v \in InstantValues : SetInstant(v) /\ Did("setInstant", 0)
          \/ \E v \in InstantValues : SetTarget(v) /\ Did("setTarget", 0)
          \/ \E dt \in FrameTimes : Update(dt) /\ Did("update", 0)
          \/ \E b \in BOOLEAN : SetEnabled(b) /\ Did("setEnabled", 0)
       /\ ScrollOnly
    \/ /\ page = "projects"
       /\ \/ \E deltaY \in PathWheelDeltas : ProjWheel(deltaY) /\ Did("projWheel", 0)
          \/ \E y \in TouchYs : ProjTouchStart(y) /\ Did("projTouchStart", 0)
          \/ \E y \in TouchYs : ProjTouchMove(y) /\ Did("projTouchMove", 0)
          \/ \E f \in BOOLEAN : ProjSetFocus(f) /\ Did("projFocus", 0)
          \/ \E dt \in PathFrameTimes : ProjAnimate(dt) /\ Did("projAnimate", 0)
       /\ ProjOnly
    \/ /\ page = "path"
       /\ \/ \E deltaY \in PathWheelDeltas : PathWheel(deltaY) /\ Did("pathWheel", 0)
          \/ \E y \in TouchYs : PathTouchStart(y) /\ Did("pathTouchStart", 0)
          \/ \E y \in TouchYs : PathTouchMove(y) /\ Did("pathTouchMove", 0)
          \/ \E dt \in PathFrameTimes : PathAnimate(dt) /\ Did("pathAnimate", 0)
       /\ PathOnly
SpecFollowers == InitFollowers /\ [][NextFollowers]_vars

\* ---- ScrollController.update repeated with the target held fixed ----
\* progress and target are kept at the finer resolution FINE in this run
FINE == 1000 * ONE
MaxFrames == 313          \* 313 frames of 16 ms: 5 simulated seconds
InitConverge ==
    /\ page = "converge" /\ last = Start /\ touchY = 0 /\ frames = 0
    /\ RideInit /\ AppIdle /\ ProjInit /\ PathInit /\ ExtraIdle
    /\ enabled = TRUE
    /\ \E start \in {<<0, FINE>>, <<0, FINE \div 2>>, <<FINE, 0>>} :
          progress = start[1] /\ target = start[2]
NextConverge ==
    \E dt \in FrameTimes \ {0} :
        /\ frames < MaxFrames
        /\ frames' = frames + 1
        /\ Update(dt) /\ Did("update", dt)
        /\ UNCHANGED <<rideVars, appVars, projVars, pathVars, extraVars, touchY, page>>
SpecConverge == InitConverge /\ [][NextConverge]_vars /\ WF_vars(NextConverge)

\* ---- main.ts, the look blend for any x and both sets of edges ----
InitLook ==
    /\ page = "look" /\ last = Start /\ touchY = 0 /\ frames = 0
    /\ RideInit /\ ScrollInit /\ AppIdle /\ ProjInit /\ PathInit /\ LookInit /\ TrackInit /\ FrameInit /\ RailInit /\ StationsIdle /\ ParticlesInit
    /\ GalleryIdle
NextLook ==
    \E x \in LookXs :
        /\ LookFrame(x) /\ Did("look", x)
        /\ UNCHANGED <<rideVars, scrollVars, appVars, projVars, pathVars, trackVars,
                       frameVars, railVars, stationVars, particleVars, galleryVars, touchY, page, frames>>
SpecLook == InitLook /\ [][NextLook]_vars

\* ---- main.ts and part_002, the parameter on the closed track ----
InitTrack ==
    /\ page \in {"track", "loop"} /\ last = Start /\ touchY = 0 /\ frames = 0
    /\ RideInit /\ ScrollInit /\ AppIdle /\ ProjInit /\ PathInit /\ ExtraIdle
NextTrack ==
    \/ /\ page = "track"
       /\ \E t \in RideTs : Pose(t) /\ Did("pose", t)
       /\ UNCHANGED <<scrollVars, appVars, projVars, pathVars, lookVars, frameVars,
                      railVars, stationVars, particleVars, galleryVars, touchY, page, frames>>
    \/ /\ page = "loop"
       /\ \E dt \in AutoFrameTimes : AutoAnimate(dt) /\ Did("autoAnimate", dt)
       /\ UNCHANGED <<rideVars, scrollVars, appVars, projVars, pathVars, lookVars,
                      frameVars, railVars, stationVars, particleVars, galleryVars, touchY, page, frames>>
SpecTrack == InitTrack /\ [][NextTrack]_vars

\* ---- main.ts and part_002, frames built along the track ----
InitFrames ==
    /\ page = "frames" /\ last = Start /\ touchY = 0 /\ frames = 0
    /\ RideInit /\ ScrollInit /\ AppIdle /\ ProjInit /\ PathInit /\ ExtraIdle
NextFrames ==
    \/ \E dir \in TangentDirs :
          /\ SleeperFrame(dir) /\ Did("sleeperFrame", 0)
          /\ UNCHANGED <<rideVars, scrollVars, appVars, projVars, pathVars, lookVars,
                         trackVars, railVars, stationVars, particleVars, galleryVars, touchY, page, frames>>
SpecFrames == InitFrames /\ [][NextFrames]_vars

\* ---- main.ts and part_002, the rail loop and the two rail curves ----
InitRails ==
    /\ page = "rails" /\ last = Start /\ touchY = 0 /\ frames = 0
    /\ RideInit /\ ScrollInit /\ AppIdle /\ ProjInit /\ PathInit /\ ExtraIdle
NextRails ==
    \/ /\ RailSample /\ Did("railSample", Len(leftPts))
       /\ UNCHANGED <<rideVars, scrollVars, appVars, projVars, pathVars, lookVars,
                      trackVars, frameVars, stationVars, particleVars, galleryVars, touchY, page, frames>>
    \/ /\ \E u \in RailUs : SampleRails(u) /\ Did("sampleRails", u)
       /\ UNCHANGED <<rideVars, scrollVars, appVars, projVars, pathVars, lookVars,
                      trackVars, frameVars, stationVars, particleVars, galleryVars, touchY, page, frames>>
SpecRails == InitRails /\ [][NextRails]_vars

\* ---- other.ts, the stations: creation (image loads) and the frame loop ----
StationsOnly ==
    UNCHANGED <<rideVars, scrollVars, appVars, pathVars, lookVars, trackVars,
                frameVars, railVars, particleVars, galleryVars, page, frames>>
InitStations ==
    /\ page = "stations" /\ last = Start /\ touchY = 0 /\ frames = 0
    /\ RideInit /\ ScrollInit /\ AppIdle /\ ProjInit /\ PathInit
    /\ LookIdle /\ TrackInit /\ FrameInit /\ RailInit /\ StationsInit /\ ParticlesInit
    /\ GalleryIdle
StationsLoadDone ==
    LoadDone /\ Did("loadDone", 0) /\ UNCHANGED <<projVars, touchY>> /\ StationsOnly
StationsLoadError ==
    LoadError /\ Did("loadError", 0) /\ UNCHANGED <<projVars, touchY>> /\ StationsOnly
StationsResume ==
    Resume /\ Did("resume", 0) /\ UNCHANGED <<projVars, touchY>> /\ StationsOnly
StationsFrame ==
    \E crossY \in CrossYs :
        StationsAnimate(16, crossY) /\ Did("frame", crossY) /\ StationsOnly
NextStations ==
    \/ StationsLoadDone
    \/ StationsLoadError
    \/ StationsResume
    \/ StationsFrame
\* every image request ends with load or error, and a settled promise resumes
\* the function that awaits it
SpecStations ==
    /\ InitStations /\ [][NextStations]_vars
    /\ WF_vars(StationsLoadDone \/ StationsLoadError)
    /\ WF_vars(StationsResume)

\* ---- myself.ts ("particles") and part_000 ("particles_000"), the tick loop ----
ParticlesOnly ==
    UNCHANGED <<rideVars, scrollVars, appVars, projVars, pathVars, lookVars, trackVars,
                frameVars, railVars, stationVars, galleryVars, touchY, page, frames>>
InitParticles ==
    /\ page \in {"particles", "particles_000"} /\ last = Start /\ touchY = 0 /\ frames = 0
    /\ RideInit /\ ScrollInit /\ AppIdle /\ ProjInit /\ PathInit /\ ExtraIdle
NextParticles ==
    \/ \E c \in CursorCells \cup {NoHit} :
          PointerMove(c) /\ Did("pointermove", 0) /\ ParticlesOnly
    \/ \E img \in {ImageSized, ImageLoaded, ImageBroken} :
          ImageProgress(img) /\ Did("image", 0) /\ ParticlesOnly
    \/ tick /\ Did("tick", 0) /\ ParticlesOnly
SpecParticles == InitParticles /\ [][NextParticles]_vars

(***************************************************************************)
(* Claims                                                                  *)
(***************************************************************************)

\* C1: the cutscene starts at most once per session, on the first frame that
\* sees ride.scrollT >= CUT_START; once cutscenePlayed is set no step starts a
\* tween, counts another start or sets inCutscene to true again, however the
\* scroll position moves around CUT_START afterwards.
C1_CutsceneStartsOnce ==
    /\ [](cutsceneStarts <= 1 /\ (cutscenePlayed <=> cutsceneStarts = 1))
    /\ [][cutscenePlayed =>
            /\ cutsceneStarts' = cutsceneStarts
            /\ (inCutscene' => inCutscene)
            /\ (cutTween'.active => cutTween.active)]_vars
    /\ [][(last'.op = "animate" /\ scrollT >= CUT_START) => cutscenePlayed']_vars

\* a frame after the cutscene has finished and the user has scrolled on to
\* another position at or above CUT_START: no second start
C1_Witness ==
    /\ last.op = "animate"
    /\ cutsceneStarts = 1 /\ ~inCutscene
    /\ scrollT >= CUT_START /\ rideT # CUT_END

\* C2: right after the cutscene tween's onComplete, inCutscene is false and
\* ride.t = ride.scrollT = CUT_END, wherever the user scrolled meanwhile.
C2_ResyncOnComplete ==
    last.op = "cutsceneComplete" =>
        /\ ~inCutscene
        /\ rideT = CUT_END
        /\ scrollT = CUT_END

\* the cutscene completed while the scroll position was back below CUT_START
C2_Witness == last.op = "cutsceneComplete" /\ last.arg < CUT_START

\* C3: while inCutscene, a scroll update writes ride.scrollT only and leaves
\* ride.t alone; ride.t changes only by a step of the cutscene tween.
C3_ScrollIgnoredInCutscene ==
    /\ [][(inCutscene /\ last'.op = "onUpdate") =>
            (rideT' = rideT /\ scrollT' = last'.arg)]_vars
    /\ [][(inCutscene /\ rideT' # rideT) =>
            last'.op \in {"tweenTick", "cutsceneComplete"}]_vars

\* a scroll update arrived during the cutscene and moved scrollT away from ride.t
C3_Witness ==
    /\ inCutscene /\ last.op = "onUpdate"
    /\ scrollT # rideT /\ scrollT = last.arg

\* C4: while the Education entry cinematic runs, scroll.enabled stays false.
C4_DisabledDuringCinematic == cinematic.active => ~enabled


\* the value v brought into [0,1]: 0 below, 1 above, v itself inside
Saturate(v) == IF v < 0 THEN 0 ELSE IF v > ONE THEN ONE ELSE v

\* c lies between a and b, inclusive
Between(c, a, b) == (a <= c /\ c <= b) \/ (b <= c /\ c <= a)

\* C5: every follower's target stays in [0,1]; an accepted wheel or touch
\* event sets it to the old target plus the event's delta (deltaY * 0.0009 in
\* ScrollController, sign * 0.02 in the path demos), saturated at 0 and 1.
C5_TargetClamped ==
    /\ [](target \in 0..ONE /\ targetT \in 0..ONE /\ pathTargetT \in 0..ONE)
    /\ [][\A d \in WheelDeltas :
            (page = "scroll" /\ enabled /\ Wheel(d)) =>
                target' = Saturate(target + WheelDelta(d))]_vars
    /\ [][\A d \in PathWheelDeltas :
            (page = "projects" /\ ~focus /\ ProjWheel(d)) =>
                targetT' = Saturate(targetT + PathStep(d))]_vars
    /\ [][\A y \in TouchYs :
            (page = "projects" /\ ~focus /\ ProjTouchMove(y)) =>
                targetT' = Saturate(targetT + PathStep(y - touchY))]_vars
    /\ [][\A d \in PathWheelDeltas :
            (page = "path" /\ PathWheel(d)) =>
                pathTargetT' = Saturate(pathTargetT + PathStep(d))]_vars
    /\ [][\A y \in TouchYs :
            (page = "path" /\ PathTouchMove(y)) =>
                pathTargetT' = Saturate(pathTargetT + PathStep(y - touchY))]_vars

\* a touch move at the upper end: the target has saturated at 1
C5_Witness ==
    /\ page = "projects" /\ last.op = "projTouchMove"
    /\ targetT = ONE /\ currentT > 0

\* C6: a frame update never overshoots: the new current value lies between
\* the old one and the target, and current stays in [0,1].
C6_NoOvershoot ==
    /\ [](progress \in 0..ONE /\ currentT \in 0..ONE /\ pathCurrentT \in 0..ONE)
    /\ [][last'.op = "update" => Between(progress', progress, target)]_vars
    /\ [][last'.op = "projAnimate" => Between(currentT', currentT, targetT)]_vars
    /\ [][last'.op = "pathAnimate" => Between(pathCurrentT', pathCurrentT, pathTargetT)]_vars

\* a frame has moved current part of the way to the target
C6_Witness ==
    /\ page = "path" /\ last.op = "pathAnimate"
    /\ 0 < pathCurrentT /\ pathCurrentT < pathTargetT

\* C7: with the target held fixed, frames with dt > 0 bring current to within
\* 1e-4 of the target and keep it there; after 5 simulated seconds (313 frames
\* of at least 16 ms) current is within 1e-3 of the target.
ConvergeEps == FINE \div 10000
C7_Converges ==
    /\ [](frames >= MaxFrames => Abs(target - progress) <= FINE \div 1000)
    /\ [][Abs(target - progress) <= ConvergeEps =>
            Abs(target' - progress') <= ConvergeEps]_vars
    /\ <>[](Abs(target - progress) <= ConvergeEps)

\* target = 1, current = 0 at the start, 5 seconds simulated
C7_Witness ==
    /\ frames = MaxFrames /\ target = FINE
    /\ FINE - progress <= FINE \div 1000

\* C8: update(0) leaves progress and target exactly as they were.
C8_ZeroDtIsIdentity ==
    [][(last'.op = "update" /\ last'.arg = 0) =>
            (progress' = progress /\ target' = target)]_vars

\* a zero-length frame ran while progress was still away from the target
C8_Witness ==
    /\ last.op = "update" /\ last.arg = 0
    /\ progress # target /\ progress > 0

\* C9: setInstant(v) leaves progress = target = v brought into [0,1], and an
\* update that follows it leaves progress at that value for every dt.
C9_SetInstant ==
    /\ [](last.op = "setInstant" =>
            (progress = Saturate(last.arg) /\ target = Saturate(last.arg)))
    /\ [][(last.op = "setInstant" /\ last'.op = "update") =>
            progress' = progress]_vars

\* setInstant(0.5)
C9_Witness ==
    /\ last.op = "setInstant" /\ last.arg = ONE \div 2
    /\ progress = ONE \div 2 /\ target = ONE \div 2

\* C10: while enabled is false a wheel event changes neither target nor progress.
C10_WheelIgnoredWhenDisabled ==
    [][(~enabled /\ last'.op = "wheel") =>
            (target' = target /\ progress' = progress)]_vars

\* a wheel event arrived while the controller was disabled
C10_Witness == ~enabled /\ last.op = "wheel" /\ target < ONE /\ last.arg > 0

\* C11: pulse with a = 0.2, b = 0.3, c = 0.6, d = 0.7 is 0 for x < 0.2 and for
\* x > 0.7, is 1 for 0.3 <= x <= 0.6, does not decrease as x grows inside
\* [0.2, 0.3], does not increase as x grows inside [0.6, 0.7], and is always
\* in [0, 1].
C11_PulseWindow ==
    /\ [](lookEdges = WindowEdges =>
            /\ lookW \in 0..WONE
            /\ ((lookX < 200 \/ lookX > 700) => lookW = 0)
            /\ ((300 <= lookX /\ lookX <= 600) => lookW = WONE))
    /\ [][(lookEdges = WindowEdges /\ 200 <= lookX /\ lookX <= lookX' /\ lookX' <= 300)
            => lookW <= lookW']_vars
    /\ [][(lookEdges = WindowEdges /\ 600 <= lookX /\ lookX <= lookX' /\ lookX' <= 700)
            => lookW >= lookW']_vars

\* x = 0.65, half way down the falling band: the pulse is strictly between 0 and 1
C11_Witness ==
    /\ lookEdges = WindowEdges /\ last.op = "look"
    /\ lookX = 650 /\ 0 < lookW /\ lookW < WONE

\* C12: every parameter used to sample the closed curve is wrapped into [0,1):
\* tMove is in [0,1) and differs from ride.t by a whole number of laps, for
\* negative ride.t and ride.t >= 1 too; the t of every sleeper is in [0,1) and
\* is its distance along the loop modulo the curve length, for the negative
\* distances of sleepers behind the camera too; part_002's tMove is in [0,1).
C12_ParameterWrapped ==
    /\ tMove \in 0..(ONE - 1)
    /\ (tMove - rideT) % ONE = 0
    /\ \A i \in DOMAIN sleeperT :
          /\ sleeperT[i] \in 0..(curveLength - 1)
          /\ \E tm \in 0..(ONE - 1) :
                (sleeperT[i] - (currentDist(tm) + localOffset(i))) % curveLength = 0
    /\ autoT \in 0..(AUTO_ONE - 1)

\* ride.t is negative and the camera is near the start of the loop: the first
\* sleeper lies behind the start and its t has wrapped to the end of the loop
C12_Witness ==
    /\ last.op = "pose" /\ rideT < 0
    /\ currentDist(tMove) < SLEEPERS_BEHIND
    /\ sleeperT[0] > curveLength - SLEEPERS_BEHIND

\* v has length 1; a and b are perpendicular
IsUnit(v) == v.n > 0 /\ v.n = v.m
Perpendicular(a, b) == Dot3(a.d, b.d) = 0

\* C13: the frame built for a sleeper (tangent, right, up) consists of three
\* mutually perpendicular vectors of length 1, whatever the direction of the
\* tangent, also when the tangent is parallel or nearly parallel to world-up.
C13_FrameOrthonormal ==
    last.op = "sleeperFrame" =>
        /\ IsUnit(tangent) /\ IsUnit(tmpRight) /\ IsUnit(tmpUp)
        /\ Perpendicular(tangent, tmpRight)
        /\ Perpendicular(tangent, tmpUp)
        /\ Perpendicular(tmpRight, tmpUp)

\* the tangent points straight up: world-up x tangent is zero and the
\* world-X fallback has produced the right vector
C13_Witness ==
    /\ last.op = "sleeperFrame"
    /\ tangent.d = <<0, 1, 0>>
    /\ tmpRight.d = <<0, 0, 1>> /\ IsUnit(tmpRight)

\* two points are gauge apart, to within 2 mm (the resolution of the
\* millimetre arithmetic of the rails); pt is the midpoint of a and b
RailTol == 2 * LEN_MM
GaugeApart(a, b) == Abs(Dist3(a, b) - LEN_MM * gauge) <= RailTol
Midpoint(pt, a, b) == Add3(a, b) = Add3(pt, pt)

\* C14 as stated: for every sample index i the left and right rail points
\* are gauge apart and the centre-line point is their midpoint, and the same
\* holds for leftCurve and rightCurve sampled at u = 0 and at u = 0.5.
C14_RailGauge ==
    /\ \A i \in 1..Len(leftPts) :
          /\ GaugeApart(leftPts[i], rightPts[i])
          /\ Midpoint(centerSamples[i - 1], leftPts[i], rightPts[i])
    /\ railPair.u \in {0, 500} =>
          /\ GaugeApart(railPair.left, railPair.right)
          /\ Midpoint(getPointAt(railPair.u, 1000), railPair.left, railPair.right)

\* C14 amended: for every sample index i the left and right rail points are
\* gauge apart and the centre-line point is their midpoint; leftCurve and
\* rightCurve sampled at u = 0 give leftPts[0] and rightPts[0], gauge apart
\* around the centre-line point at u = 0.
C14_RailGaugeAtSamples ==
    /\ \A i \in 1..Len(leftPts) :
          /\ GaugeApart(leftPts[i], rightPts[i])
          /\ Midpoint(centerSamples[i - 1], leftPts[i], rightPts[i])
    /\ railPair.u = 0 =>
          /\ railPair.left = leftPts[1] /\ railPair.right = rightPts[1]
          /\ GaugeApart(railPair.left, railPair.right)
          /\ Midpoint(getPointAt(0, 1000), railPair.left, railPair.right)

\* all railSegments + 1 samples are built and both curves were sampled at u = 0
C14_Witness ==
    /\ last.op = "sampleRails" /\ railPair.u = 0
    /\ Len(leftPts) = railSegments + 1
    /\ railPair.left # railPair.right

\* C15: loadImageTexture never fails: its promise is never rejected and
\* resolves with the loaded texture when the load succeeds and with the given
\* placeholder when it errors; so createStations never throws, every station
\* it builds has exactly two textures (image k or placeholder k of its own
\* project), and it ends up building a station for every project.
C15_LoadNeverFails ==
    /\ [](promise.state # "rejected" /\ create.pc # "failed")
    /\ [][last'.op = "loadDone" =>
            (promise'.state = "resolved" /\ promise'.value = imageTexture(promise.url))]_vars
    /\ [][last'.op = "loadError" =>
            (promise'.state = "resolved" /\ promise'.value = promise.fallback)]_vars
    /\ [](\A i \in 1..Len(stations) :
            /\ stations[i].project = projects[i].id
            /\ Len(stations[i].textures) = 2
            /\ \A k \in 1..2 :
                  stations[i].textures[k] \in
                      {imageTexture(projects[i].imageUrls[k]),
                       makeNeonPlaceholderTexture(projects[i].id, IF k = 1 THEN "A" ELSE "B")})
    /\ <>(create.pc = "done" /\ Len(stations) = Len(projects))

\* all three stations are built although some loads failed: the second
\* station shows placeholder A and its loaded second image
C15_Witness ==
    /\ create.pc = "done" /\ Len(stations) = Len(projects)
    /\ stations[2].textures[1] = makeNeonPlaceholderTexture("lockout", "A")
    /\ stations[2].textures[2] = imageTexture("/projects/lockout-2.jpg")
    /\ stations[3].textures[1].kind = "placeholder"

\* C18: a station's tiltSign changes only on a frame whose crossY is outside
\* the dead zone: with |crossY| <= 0.04 it keeps its value, with crossY > 0.04
\* it becomes -1 and with crossY < -0.04 it becomes +1.
C18_TiltDeadZone ==
    /\ [][last'.op = "frame" =>
            \A i \in 1..Len(stations) :
                /\ (Abs(last'.arg[i]) <= 40 =>
                        stations'[i].tiltSign = stations[i].tiltSign)
                /\ (last'.arg[i] > 40 => stations'[i].tiltSign = -1)
                /\ (last'.arg[i] < -40 => stations'[i].tiltSign = 1)]_vars
    /\ [][\A i \in 1..Len(stations) :
            stations'[i].tiltSign # stations[i].tiltSign =>
                (last'.op = "frame" /\ Abs(last'.arg[i]) > 40)]_vars

\* the first station (default sign +1) was flipped to -1 earlier and a frame
\* with crossY exactly on the edge of the dead zone has left it at -1
C18_Witness ==
    /\ last.op = "frame" /\ Len(stations) >= 1
    /\ last.arg[1] = 40
    /\ stations[1].tiltSign = -1

\* C16: on every frame of the particle demos the glow image is drawn only if
\* it has finished loading successfully; while it is loading, or if its load
\* failed, the draw call is skipped and the frame goes on to render and to
\* schedule the next frame.
C16_GlowDrawGuard ==
    /\ [](tickLoop = "scheduled")
    /\ [](last.op = "tick" =>
            /\ displacement.rendered
            /\ (displacement.glow = "drawn" => displacement.glowImage = ImageLoaded)
            /\ (displacement.glowImage # ImageLoaded => displacement.glow = "skipped"))

\* C17: pressing R resets scroll progress to the start in any world: after
\* the key handler has run, progress = target = 0, whichever world is active
\* and whether or not scroll input is enabled, and progress stays 0 on the
\* following frames until the next input.
C17_ResetHolds == last.op = "reset" => progress = 0 /\ target = 0

\* the blend has finished and the next frame has not yet consumed it
Completed == consumeCompletedTarget # NoWorld

\* the world whose onEnter hook ran last, NoWorld before the first key
LastEntered == IF last.arg = 0 THEN NoWorld
               ELSE CHOOSE id \in WorldIds : KeyOf(id) = last.arg

C20_ActiveWorldChangesOnCompletion ==
    /\ [](transition.active => activeWorld = transition.fromWorld)
    /\ [](transition = NoTransition => consumeCompletedTarget = NoWorld)
    /\ [][Completed /\ transition' # transition
            => activeWorld' = transition.toWorld /\ transition' = NoTransition]_vars
    /\ [][activeWorld' # activeWorld
            => Completed /\ activeWorld' = transition.toWorld
                         /\ transition' = NoTransition]_vars

\* C21: when the Education entry cinematic completes, scroll input is
\* re-enabled with the target aligned to the displayed progress: right after
\* onComplete, enabled is true and target = progress = the cinematic's end
\* value (0.18), so the next update, whatever its frame time, does not move
\* progress.
C21_CinematicHandsBack ==
    [][cinematic.active /\ ~cinematic'.active
         => /\ enabled'
            /\ target' = CINE_END
            /\ progress' = CINE_END
            /\ \A dt \in FrameTimes : damp(progress', target', smoothing, dt) = progress']_vars
C21_Witness ==
    /\ ~cinematic.active
    /\ enabled
    /\ target = CINE_END
    /\ progress = CINE_END
    /\ hasPlayedEntryCinematic
    /\ transition.active

\* C22: the Education entry cinematic plays at most once per session: after
\* the first onEnter (the constructor's), the flag stays set, a tween that has
\* ended is never started again, and every later onEnter of the Education
\* world (after switching to Work and back) leaves the tween, scroll.enabled,
\* progress and target as they were.
C22_CinematicOnce ==
    /\ [](hasPlayedEntryCinematic)
    /\ [][~cinematic.active => ~cinematic'.active]_vars
    /\ [][last' # last /\ last' = [op |-> "enter", arg |-> KeyOf("education")]
            => UNCHANGED <<enabled, progress, target, cinematic>>]_vars
C22_Witness ==
    /\ last = [op |-> "enter", arg |-> KeyOf("education")]
    /\ activeWorld = "work"
    /\ transition.active /\ transition.toWorld = "education" /\ transition.k = 0
    /\ ~cinematic.active
    /\ progress = CINE_END

\* C23: in the projects demo, while a station is focused, wheel and touch
\* events leave targetT unchanged and the frame update leaves currentT
\* unchanged, so on leaving focus (empty-space click or Escape) currentT equals
\* the value it had when focus was entered (returnT).
C23_FocusFreezesTravel ==
    /\ [](focus => currentT = focusInfo.returnT)
    /\ [][focus => targetT' = targetT /\ currentT' = currentT]_vars
    /\ [][focus /\ ~focus' => currentT' = focusInfo.returnT]_vars
C23_Witness ==
    /\ focus
    /\ stations[1].swapping
    /\ 0 < currentT /\ currentT < targetT
    /\ currentT = focusInfo.returnT

\* station i is the focused one
Focused(i) == focus /\ focusInfo.stationId = stations[i].project

\* C24: a station cycles through its images only while it is focused: a new
\* swap is started only on a frame where that station is the focused one, it
\* is not already swapping and time >= nextSwapAt; each completed swap
\* advances imageIndex by exactly one modulo textures.length and
\* transitionIndex by one modulo the transition list length (and nothing else
\* changes them); a swap in progress is not started again.
C24_CycleOnlyWhenFocused ==
    [][\A i \in 1..Len(stations) :
         LET s == stations[i]
             n == stations'[i]
         IN /\ (~s.swapping /\ n.swapping)
                  => Focused(i) /\ time' >= s.nextSwapAt /\ n.progress < SWAP_DONE
            /\ (s.swapping /\ ~n.swapping)
                  => /\ n.imageIndex = (s.imageIndex + 1) % Len(s.textures)
                     /\ n.transitionIndex =
                          (s.transitionIndex + 1) % Len(projects[ProjectOf(s)].transitions)
            /\ (n.imageIndex # s.imageIndex \/ n.transitionIndex # s.transitionIndex)
                  => s.swapping /\ ~n.swapping
            /\ (s.swapping /\ n.swapping)
                  => n.uTexA = s.uTexA /\ n.uTexB = s.uTexB /\ n.progress >= s.progress]_vars
C24_Witness ==
    /\ stations[1].imageIndex = 0
    /\ stations[1].transitionIndex = 2
    /\ stations[2].swapping
    /\ ~Focused(2)
    /\ stations[3].transitionIndex = 0

\* C25: whenever a station is not swapping, the texture it shows is
\* textures[imageIndex]: uProgress is 0 with uTexA = textures[imageIndex]
\* (before the first swap) or uProgress is 1 with uTexB = textures[imageIndex]
\* (after a swap); and 0 <= imageIndex < textures.length in every reachable
\* state.
C25_ShowsCurrentImage ==
    \A i \in 1..Len(stations) :
        LET s == stations[i] IN
        /\ 0 <= s.imageIndex /\ s.imageIndex < Len(s.textures)
        /\ ~s.swapping =>
              \/ s.uProgress = 0 /\ s.uTexA = s.textures[s.imageIndex + 1]
              \/ s.uProgress = EONE /\ s.uTexB = s.textures[s.imageIndex + 1]
C25_Witness ==
    /\ ~stations[1].swapping /\ stations[1].uProgress = EONE /\ stations[1].imageIndex = 1
    /\ ~stations[2].swapping /\ stations[2].uProgress = EONE /\ stations[2].imageIndex = 0
    /\ stations[3].uProgress = 0

\* the time a swap is given to end, in milliseconds of frames with dt > 0
SwapBudget == 1000

\* C26: every image swap that starts eventually finishes: once swapping is
\* true (and the session is followed for SwapBudget more milliseconds), frames
\* with dt > 0 bring progress above 0.985, where swapping becomes false with
\* progress = 1, also when the station loses focus in the middle of the swap.
C26_SwapFinishes ==
    \A i \in 1..Len(projects) :
        (stations[i].swapping /\ time + SwapBudget <= SwapHorizon)
           ~> (~stations[i].swapping /\ stations[i].progress = EONE
                                     /\ stations[i].uProgress = EONE)
C26_Witness ==
    /\ ~stations[1].swapping /\ stations[1].progress = EONE /\ stations[1].imageIndex = 1
    /\ Focused(2) /\ stations[2].swapping
    /\ time = 2 * FOCUS_DELAY + 700
\* C27: in every reachable state of the rail-ride demo, inCutscene implies
\* cutscenePlayed and CUT_START <= ride.t <= CUT_END: the scripted tween
\* starts the camera at CUT_START and never takes it outside the cutscene
\* range.
C27_CutsceneRange ==
    inCutscene => cutscenePlayed /\ CUT_START <= rideT /\ rideT <= CUT_END
C27_Witness ==
    /\ inCutscene
    /\ CUT_START < rideT /\ rideT < CUT_END
    /\ scrollT > CUT_END
    /\ last.op = "onUpdate"


====
